---- MODULE Spec2Model ----
(***************************************************************************)
(* gcs-resource: the upload side of the GCS client (gcsclient.UploadFile   *)
(* and gcsclient.planParallelUpload).  One UploadFile invocation is        *)
(* modelled as a coordinator (the calling goroutine) plus one goroutine    *)
(* per chunk; the object store and the local filesystem are the            *)
(* environment, whose calls succeed or fail nondeterministically.          *)
(***************************************************************************)
EXTENDS Integers, Sequences, FiniteSets, Bags, TLC

\* ------------------------------------------------------------ bounds
\* largest parallel_upload_threshold (MB) tried
MaxThresholdMB == 2
\* largest number of chunks in the concurrent specification (Spec)
MaxChunks == 4
\* file sizes of the planning specification (SpecPlan) go up to this many
\* thresholds (above 32, so that the clamp happens)
MaxMultiple == 34
\* generations the store may assign to an uploaded object: 1..MaxGeneration
MaxGeneration == 2
\* largest number of objects the bucket lists
MaxObjects == 3
\* object versions the store retains, and objects per page of a listing
MaxVersions == 3
MaxPageSize == 2

\* ------------------------------------------------------------ program constants
\* the cap on the number of parts (the literal 32 of planParallelUpload)
MaxParts == 32
\* parallelUploadThreshold is in MB: int64(parallelUploadThreshold) << 20
MBShift == 20

Nil == "nil"
\* errors returned by calls to the object store
StoreErrors == {"storeErr1", "storeErr2"}
\* errors returned by os.Stat / os.Open
FsErrors == {"fsErr"}

\* strings are sequences of characters
ObjectPath == <<"o", "b", "j">>
DotPart == <<".", "p", "a", "r", "t">>
DigitChars == <<"0", "1", "2", "3", "4", "5", "6", "7", "8", "9">>

VARIABLES
    parallelUploadThreshold, \* argument of UploadFile (MB)
    localFileSize,           \* environment: size of the local file
    bucketVersioning,        \* environment: the bucket's versioning flag
    pc,                      \* the coordinator's position in UploadFile
    returned,                \* UploadFile has returned (at position pc)
    retGeneration, retErr,   \* the values UploadFile returned
    isBucketVersioned, fileSize, threads, trunkSize, parallelMode,
    i,                       \* loop index of the fan-out, join and cleanup loops
    readers,                 \* readers[k]: the byte range chunk k's reader yields
    sourceObjects,           \* sourceObjects[k]: name of compose source k
    worker,                  \* worker[k]: goroutine of chunk k: [st, err]
    received,                \* what the coordinator took from errChannel, in order:
                             \* [chunk, err], chunk being the sender's index
    openFiles,               \* file handles currently open
    insertCalls,             \* bag of object names of the Objects.Insert calls made
    uploadedObject,          \* single-part path: what insertCall.Do() returned
    composeCalls,            \* Objects.Compose calls made, with the generation the store gave
    deleteCalls,             \* sequence of Objects.Delete calls made
    \* ---- InCommand.Run (and the gcsclient.DownloadFile it calls)
    request,                 \* the InRequest: source, version, params
    listing,                 \* environment: the object names the bucket lists
    inPc,                    \* position in InCommand.Run ("idle": not invoked)
    inReturned,              \* InCommand.Run has returned (at position inPc)
    inResponse,              \* the InResponse's Version: [path, generation]
    inErr,                   \* the error InCommand.Run returned
    inObjectPath,            \* objectPath of inByRegex / inByVersionedFile
    inGeneration,            \* generation of inByVersionedFile (0 in inByRegex)
    destDir,                 \* the entries of destinationDir: {} while it does not exist, "." once created
    calls,                   \* calls made on the client and by it on the store
    stored,                  \* environment: the object versions under the prefix, in store order
    pageSize,                \* environment: objects per page of a listing
    genPc,                   \* position in ObjectGenerations
    genReturned,             \* ObjectGenerations has returned
    genResult, genErr,       \* the values ObjectGenerations returned
    pageToken,               \* pages served so far (0 is the empty token)
    objectGenerations        \* accumulator of getObjectGenerations

vars == <<parallelUploadThreshold, localFileSize, bucketVersioning, pc, returned,
          retGeneration, retErr, isBucketVersioned, fileSize, threads, trunkSize,
          parallelMode, i, readers, sourceObjects, worker, received, openFiles,
          insertCalls, uploadedObject, composeCalls, deleteCalls,
          request, listing, inPc, inReturned, inResponse, inErr, inObjectPath,
          inGeneration, destDir, calls,
          stored, pageSize, genPc, genReturned, genResult, genErr, pageToken,
          objectGenerations>>

genVars == <<stored, pageSize, genPc, genReturned, genResult, genErr, pageToken,
             objectGenerations>>
inVars == <<request, listing, inPc, inReturned, inResponse, inErr, inObjectPath,
            inGeneration, destDir, calls>>
uploadVars == <<parallelUploadThreshold, localFileSize, pc, returned,
                retGeneration, retErr, isBucketVersioned, fileSize, threads, trunkSize,
                parallelMode, i, readers, sourceObjects, worker, received, openFiles,
                insertCalls, uploadedObject, composeCalls, deleteCalls>>
envVars == <<parallelUploadThreshold, localFileSize, bucketVersioning>>
planVars == <<isBucketVersioned, fileSize, threads, trunkSize, parallelMode>>
fanVars == <<readers, sourceObjects, worker, openFiles>>
storeVars == <<insertCalls, uploadedObject, composeCalls, deleteCalls>>

Min(a, b) == IF a < b THEN a ELSE b

\* ------------------------------------------------------------ pure functions

\* strconv.Itoa for n >= 0: the decimal digits of n, most significant first
RECURSIVE Itoa(_)
Itoa(n) ==
    IF n < 10 THEN <<DigitChars[n + 1]>>
    ELSE Itoa(n \div 10) \o <<DigitChars[(n % 10) + 1]>>

\* the value of a decimal digit character
DigitValue(c) == CHOOSE d \in 0 .. 9 : DigitChars[d + 1] = c

\* the number a sequence of decimal digits denotes
RECURSIVE ParseDec(_)
ParseDec(ds) ==
    IF Len(ds) = 0 THEN 0
    ELSE 10 * ParseDec(SubSeq(ds, 1, Len(ds) - 1)) + DigitValue(ds[Len(ds)])

\* mutant: parts numbered from 1
partNameOneBased(objectPath, k) == objectPath \o DotPart \o Itoa(k + 1)

\* objectPath + ".part" + strconv.Itoa(int(i))
partName(objectPath, k) == objectPath \o DotPart \o Itoa(k)

\* mutant: the remainder is not rounded up to one more thread
planParallelUploadFloor(fSize, tSize) ==
    LET t == fSize \div tSize
    IN  IF t > MaxParts THEN <<MaxParts, fSize \div MaxParts>> ELSE <<t, tSize>>

\* mutant: the clamped chunk size is rounded up
planParallelUploadCeilChunk(fSize, tSize) ==
    LET t0 == fSize \div tSize
        t  == IF fSize % tSize # 0 THEN t0 + 1 ELSE t0
    IN  IF t > MaxParts
        THEN <<MaxParts, (fSize + MaxParts - 1) \div MaxParts>>
        ELSE <<t, tSize>>

\* planParallelUpload(fileSize, trunkSize) returns <<threads, trunkSize>>
planParallelUpload(fSize, tSize) ==
    LET t0 == fSize \div tSize
        t  == IF fSize % tSize # 0 THEN t0 + 1 ELSE t0
    IN  IF t > MaxParts THEN <<MaxParts, fSize \div MaxParts>> ELSE <<t, tSize>>

\* mutant: a single thread is already parallel
isParallelFromOne(t) == t >= 1

\* if threads > 1 { parallelMode = true }
isParallel(t) == t > 1

\* mutant: every chunk, the last one too, is a LimitReader
chunkReaderAllLimited(k, t, tSize, fSize) ==
    LET off == Min(tSize * k, fSize)
    IN  [from |-> off, to |-> Min(off + tSize, fSize)]

\* The bytes [from, to) of the file that chunk k's reader yields:
\* localFile.Seek(trunkSize*i, 0), then the file itself for the last chunk
\* (read to end of file) and io.LimitReader(localFile, trunkSize) otherwise
\* (at most trunkSize bytes, fewer at end of file).
chunkReader(k, t, tSize, fSize) ==
    LET off == Min(tSize * k, fSize)
    IN  IF k = t - 1
        THEN [from |-> off, to |-> fSize]
        ELSE [from |-> off, to |-> Min(off + tSize, fSize)]

\* mutant: the store's generation is returned whatever the bucket's versioning
singleGenerationAlways(versioned, generation) == generation

\* if isBucketVersioned { return uploadedObject.Generation, nil }; return 0, nil
singleGeneration(versioned, generation) == IF versioned THEN generation ELSE 0

\* mutant: the multi-part path returns the generation as the single-part path does
composedGenerationIfVersioned(versioned, generation) ==
    IF versioned THEN generation ELSE 0

\* _, err = composeCall.Do() ... return 0, nil: the composed object is dropped
composedGeneration(versioned, generation) == 0

\* ------------------------------------------------------------ inputs

Thresholds == (-1) .. MaxThresholdMB

\* the chunk size in bytes a threshold asks for (1 MB where chunking is off)
Unit(t) == IF t > 0 THEN t * (2 ^ MBShift) ELSE 2 ^ MBShift

\* file sizes around the multiples of the threshold
SizesUpTo(t, m) ==
    {s \in {k * Unit(t) + d : k \in 0 .. m, d \in {-1, 0, 1}} :
        s >= 0 /\ s <= m * Unit(t)}

InitWith(m) ==
    /\ parallelUploadThreshold \in Thresholds
    /\ localFileSize \in SizesUpTo(parallelUploadThreshold, m)
    /\ bucketVersioning \in BOOLEAN
    /\ pc = "versioning"
    /\ returned = FALSE
    /\ retGeneration = 0
    /\ retErr = Nil
    /\ isBucketVersioned = FALSE
    /\ fileSize = 0
    /\ threads = 1
    /\ trunkSize = 0
    /\ parallelMode = FALSE
    /\ i = 0
    /\ readers = <<>>
    /\ sourceObjects = <<>>
    /\ worker = <<>>
    /\ received = <<>>
    /\ openFiles = {}
    /\ insertCalls = EmptyBag
    /\ uploadedObject = [generation |-> 0, err |-> Nil]
    /\ composeCalls = <<>>
    /\ deleteCalls = <<>>

\* InCommand.Run is not invoked
InIdle ==
    /\ request = [bucket |-> "", regexp |-> "", versionedFile |-> <<>>,
                  versionPath |-> <<>>, versionGeneration |-> <<>>,
                  sourceSkipDownload |-> FALSE, paramsSkipDownload |-> FALSE,
                  unpack |-> FALSE]
    /\ listing = <<>>
    /\ inPc = "idle"
    /\ inReturned = FALSE
    /\ inResponse = [path |-> <<>>, generation |-> <<>>]
    /\ inErr = Nil
    /\ inObjectPath = <<>>
    /\ inGeneration = 0
    /\ destDir = {}
    /\ calls = <<>>

\* ObjectGenerations is not invoked
GenIdle ==
    /\ stored = <<>>
    /\ pageSize = 1
    /\ genPc = "idle"
    /\ genReturned = FALSE
    /\ genResult = <<>>
    /\ genErr = Nil
    /\ pageToken = 0
    /\ objectGenerations = <<>>

Init == InitWith(MaxChunks) /\ InIdle /\ GenIdle

InitPlan == InitWith(MaxMultiple) /\ InIdle /\ GenIdle

\* ------------------------------------------------------------ UploadFile

\* return g, e at the current position
Return(g, e) ==
    /\ returned' = TRUE
    /\ retGeneration' = g
    /\ retErr' = e

NoReturn == UNCHANGED <<returned, retGeneration, retErr>>

\* isBucketVersioned, err := gcsclient.getBucketVersioning(bucketName)
GetBucketVersioning ==
    /\ pc = "versioning" /\ ~returned
    /\ \/ /\ \E e \in StoreErrors : Return(0, e)
          /\ UNCHANGED <<pc, isBucketVersioned>>
       \/ /\ isBucketVersioned' = bucketVersioning
          /\ pc' = "stat"
          /\ NoReturn
    /\ UNCHANGED <<inVars, genVars, envVars, fileSize, threads, trunkSize, parallelMode, i, fanVars,
                   received, storeVars>>

\* stat, err := os.Stat(localPath); fileSize := stat.Size()
Stat ==
    /\ pc = "stat" /\ ~returned
    /\ \/ /\ \E e \in FsErrors : Return(0, e)
          /\ UNCHANGED <<pc, fileSize>>
       \/ /\ fileSize' = localFileSize
          /\ pc' = "plan"
          /\ NoReturn
    /\ UNCHANGED <<inVars, genVars, envVars, isBucketVersioned, threads, trunkSize, parallelMode, i,
                   fanVars, received, storeVars>>

\* the plan: threads, trunkSize and parallelMode
Plan ==
    /\ pc = "plan" /\ ~returned
    /\ LET shifted == parallelUploadThreshold * (2 ^ MBShift)
           p == IF parallelUploadThreshold > 0
                THEN planParallelUpload(fileSize, shifted)
                ELSE <<1, shifted>>
       IN  /\ threads' = p[1]
           /\ trunkSize' = p[2]
           /\ parallelMode' = isParallel(p[1])
           /\ pc' = IF isParallel(p[1]) THEN "fanout" ELSE "open"
    /\ i' = 0
    /\ NoReturn
    /\ UNCHANGED <<inVars, genVars, envVars, isBucketVersioned, fileSize, fanVars, received, storeVars>>

\* one iteration of the fan-out loop: open the file, seek, build the reader,
\* name the part, record the compose source, start the goroutine
FanOut ==
    /\ pc = "fanout" /\ ~returned /\ i < threads
    /\ \/ /\ \E e \in FsErrors : Return(0, e)
          /\ UNCHANGED <<pc, i, fanVars>>
       \/ /\ openFiles' = openFiles \cup {i}
          /\ readers' = Append(readers, chunkReader(i, threads, trunkSize, fileSize))
          /\ sourceObjects' = Append(sourceObjects, partName(ObjectPath, i))
          /\ worker' = Append(worker, [st |-> "uploading", err |-> Nil])
          /\ i' = IF i + 1 = threads THEN 0 ELSE i + 1
          /\ pc' = IF i + 1 = threads THEN "join" ELSE "fanout"
          /\ NoReturn
    /\ UNCHANGED <<inVars, genVars, envVars, planVars, received, storeVars>>

\* goroutine of chunk k (k = w - 1): _, err = insertCall.Do()
WorkerDo(w) ==
    /\ w \in DOMAIN worker
    /\ worker[w].st = "uploading"
    /\ \E r \in {Nil} \cup StoreErrors :
          worker' = [worker EXCEPT ![w] = [st |-> "sending", err |-> r]]
    /\ insertCalls' = insertCalls (+) SetToBag({sourceObjects[w]})
    /\ UNCHANGED <<inVars, genVars, envVars, planVars, pc, returned, retGeneration, retErr, i, readers,
                   sourceObjects, received, openFiles, uploadedObject, composeCalls,
                   deleteCalls>>

\* mutant: every result is awaited, and the last error received is returned
ReceiveDrainLast(w) ==
    /\ pc = "join" /\ ~returned /\ i < threads
    /\ w \in DOMAIN worker
    /\ worker[w].st = "sending"
    /\ worker' = [worker EXCEPT ![w].st = "done"]
    /\ received' = Append(received, [chunk |-> w - 1, err |-> worker[w].err])
    /\ LET errs == SelectSeq(received', LAMBDA x : x.err # Nil)
       IN  IF i + 1 < threads
           THEN /\ i' = i + 1 /\ pc' = pc /\ NoReturn
           ELSE IF errs # <<>>
                THEN /\ Return(0, errs[Len(errs)].err) /\ UNCHANGED <<pc, i>>
                ELSE /\ i' = 0 /\ pc' = "compose" /\ NoReturn
    /\ UNCHANGED <<inVars, genVars, envVars, planVars, readers, sourceObjects, openFiles, storeVars>>

\* mutant: the join loop runs threads - 1 times
ReceiveOneShort(w) ==
    /\ pc = "join" /\ ~returned /\ i < threads
    /\ w \in DOMAIN worker
    /\ worker[w].st = "sending"
    /\ worker' = [worker EXCEPT ![w].st = "done"]
    /\ received' = Append(received, [chunk |-> w - 1, err |-> worker[w].err])
    /\ IF worker[w].err # Nil
       THEN /\ Return(0, worker[w].err)
            /\ UNCHANGED <<pc, i>>
       ELSE /\ i' = IF i + 1 >= threads - 1 THEN 0 ELSE i + 1
            /\ pc' = IF i + 1 >= threads - 1 THEN "compose" ELSE "join"
            /\ NoReturn
    /\ UNCHANGED <<inVars, genVars, envVars, planVars, readers, sourceObjects, openFiles, storeVars>>

\* one iteration of the join loop: err = <-errChannel, a rendezvous with the
\* goroutine w that is sending on the unbuffered channel
Receive(w) ==
    /\ pc = "join" /\ ~returned /\ i < threads
    /\ w \in DOMAIN worker
    /\ worker[w].st = "sending"
    /\ worker' = [worker EXCEPT ![w].st = "done"]
    /\ received' = Append(received, [chunk |-> w - 1, err |-> worker[w].err])
    /\ IF worker[w].err # Nil
       THEN /\ Return(0, worker[w].err)
            /\ UNCHANGED <<pc, i>>
       ELSE /\ i' = IF i + 1 = threads THEN 0 ELSE i + 1
            /\ pc' = IF i + 1 = threads THEN "compose" ELSE "join"
            /\ NoReturn
    /\ UNCHANGED <<inVars, genVars, envVars, planVars, readers, sourceObjects, openFiles, storeVars>>

\* the compose request over sourceObjects
Compose ==
    /\ pc = "compose" /\ ~returned
    /\ \/ /\ \E e \in StoreErrors : Return(0, e)
          /\ composeCalls' = Append(composeCalls,
                                    [destination |-> ObjectPath, sources |-> sourceObjects,
                                     generation |-> 0])
          /\ UNCHANGED <<pc, i>>
       \/ /\ \E g \in 1 .. MaxGeneration :
                composeCalls' = Append(composeCalls,
                                       [destination |-> ObjectPath, sources |-> sourceObjects,
                                        generation |-> g])
          /\ pc' = "cleanup"
          /\ i' = 0
          /\ NoReturn
    /\ UNCHANGED <<inVars, genVars, envVars, planVars, fanVars, received, insertCalls, uploadedObject,
                   deleteCalls>>

\* mutant: a failed delete ends the cleanup with its error
DeletePartStopOnError ==
    /\ pc = "cleanup" /\ ~returned /\ i < threads
    /\ \E r \in {Nil} \cup StoreErrors :
          /\ deleteCalls' = Append(deleteCalls,
                                   [name |-> partName(ObjectPath, i), err |-> r])
          /\ IF r # Nil
             THEN /\ Return(0, r) /\ UNCHANGED i
             ELSE IF i + 1 = threads
                  THEN /\ Return(0, Nil) /\ UNCHANGED i
                  ELSE /\ i' = i + 1 /\ NoReturn
    /\ UNCHANGED <<inVars, genVars, envVars, planVars, pc, fanVars, received, insertCalls, uploadedObject,
                   composeCalls>>

\* one iteration of the cleanup loop, and "return 0, nil" after the last one
DeletePart ==
    /\ pc = "cleanup" /\ ~returned /\ i < threads
    /\ \E r \in {Nil} \cup StoreErrors :
          deleteCalls' = Append(deleteCalls,
                                [name |-> partName(ObjectPath, i), err |-> r])
    /\ IF i + 1 = threads
       THEN /\ Return(composedGeneration(isBucketVersioned,
                                          composeCalls[Len(composeCalls)].generation), Nil)
            /\ UNCHANGED i
       ELSE /\ i' = i + 1 /\ NoReturn
    /\ UNCHANGED <<inVars, genVars, envVars, planVars, pc, fanVars, received, insertCalls, uploadedObject,
                   composeCalls>>

\* single-part path: localFile, err := os.Open(localPath)
SingleOpen ==
    /\ pc = "open" /\ ~returned
    /\ \/ /\ \E e \in FsErrors : Return(0, e)
          /\ UNCHANGED <<pc, openFiles>>
       \/ /\ openFiles' = {"single"}
          /\ pc' = "insert"
          /\ NoReturn
    /\ UNCHANGED <<inVars, genVars, envVars, planVars, i, readers, sourceObjects, worker, received,
                   storeVars>>

\* single-part path: the insert call, the returned generation, and the
\* deferred localFile.Close()
SingleInsert ==
    /\ pc = "insert" /\ ~returned
    /\ insertCalls' = insertCalls (+) SetToBag({ObjectPath})
    /\ \/ \E e \in StoreErrors :
             /\ uploadedObject' = [generation |-> 0, err |-> e]
             /\ Return(0, e)
       \/ \E g \in 1 .. MaxGeneration :
             /\ uploadedObject' = [generation |-> g, err |-> Nil]
             /\ Return(singleGeneration(isBucketVersioned, g), Nil)
    /\ openFiles' = {}
    /\ UNCHANGED <<inVars, genVars, envVars, planVars, pc, i, readers, sourceObjects, worker, received,
                   composeCalls, deleteCalls>>

\* ------------------------------------------------------------ versions
\* (package versions and the root package's Source / Version are not among
\* the sources; they are modelled from the specification and the tests)

\* the two patterns tried: "f-(.*)" has one capturing group, "f-.*" has none
RegexpGroup == "f-(.*)"
RegexpNoGroup == "f-.*"
KeyPrefix == <<"f", "-">>

\* code points of the characters version tokens are made of
CharCode(c) ==
    IF c = "-" THEN 45
    ELSE IF c = "." THEN 46
    ELSE 48 + DigitValue(c)

IsDigit(c) == \E v \in 0 .. 9 : DigitChars[v + 1] = c

HasPrefix(key, pre) == Len(key) >= Len(pre) /\ SubSeq(key, 1, Len(pre)) = pre

\* extract(objectKey, pattern): the captured token and whether one was found;
\* a pattern without a capturing group never yields one
Extract(key, regexp) ==
    IF regexp = RegexpGroup /\ HasPrefix(key, KeyPrefix)
    THEN [ok |-> TRUE, path |-> key, token |-> SubSeq(key, Len(KeyPrefix) + 1, Len(key))]
    ELSE [ok |-> FALSE, path |-> key, token |-> <<>>]

\* the length of the first maximal run of digits or of non-digits of t
RunLen(t) ==
    CHOOSE k \in 1 .. Len(t) :
        /\ \A j \in 1 .. k : IsDigit(t[j]) = IsDigit(t[1])
        /\ k = Len(t) \/ IsDigit(t[k + 1]) # IsDigit(t[1])

\* a token as its alternating maximal runs of digits and non-digits
RECURSIVE Runs(_)
Runs(t) ==
    IF t = <<>> THEN <<>>
    ELSE <<SubSeq(t, 1, RunLen(t))>> \o Runs(SubSeq(t, RunLen(t) + 1, Len(t)))

\* -1, 0, 1: lexicographic comparison by code point, a proper prefix first
RECURSIVE LexCompare(_, _)
LexCompare(a, b) ==
    IF a = <<>> /\ b = <<>> THEN 0
    ELSE IF a = <<>> THEN -1
    ELSE IF b = <<>> THEN 1
    ELSE IF CharCode(a[1]) < CharCode(b[1]) THEN -1
    ELSE IF CharCode(a[1]) > CharCode(b[1]) THEN 1
    ELSE LexCompare(Tail(a), Tail(b))

\* two runs: digits against digits as integers, otherwise by code point
CompareRun(a, b) ==
    IF IsDigit(a[1]) /\ IsDigit(b[1])
    THEN (IF ParseDec(a) < ParseDec(b) THEN -1
          ELSE IF ParseDec(a) > ParseDec(b) THEN 1 ELSE 0)
    ELSE LexCompare(a, b)

\* runs pairwise from the left; the token that runs out of runs sorts first
RECURSIVE CompareRuns(_, _)
CompareRuns(ra, rb) ==
    IF ra = <<>> /\ rb = <<>> THEN 0
    ELSE IF ra = <<>> THEN -1
    ELSE IF rb = <<>> THEN 1
    ELSE IF CompareRun(ra[1], rb[1]) # 0 THEN CompareRun(ra[1], rb[1])
    ELSE CompareRuns(Tail(ra), Tail(rb))

\* the VersionOrderer
CompareTokens(ta, tb) == CompareRuns(Runs(ta), Runs(tb))

\* e inserted into the ascending sequence es
RECURSIVE InsertSorted(_, _)
InsertSorted(e, es) ==
    IF es = <<>> THEN <<e>>
    ELSE IF CompareTokens(e.token, es[1].token) < 0 THEN <<e>> \o es
    ELSE <<es[1]>> \o InsertSorted(e, Tail(es))

RECURSIVE SortExtractions(_)
SortExtractions(es) ==
    IF es = <<>> THEN <<>>
    ELSE InsertSorted(es[Len(es)], SortExtractions(SubSeq(es, 1, Len(es) - 1)))

RECURSIVE ExtractAll(_, _)
ExtractAll(objects, regexp) ==
    IF objects = <<>> THEN <<>>
    ELSE (IF Extract(objects[1], regexp).ok THEN <<Extract(objects[1], regexp)>> ELSE <<>>)
         \o ExtractAll(Tail(objects), regexp)

\* versions.GetBucketObjectVersions: the extractions of the listed objects,
\* ascending by version token
GetBucketObjectVersions(objects, regexp) == SortExtractions(ExtractAll(objects, regexp))

\* Version.GenerationValue: the generation string as a decimal number
GenerationValue(s) ==
    IF s # <<>> /\ \A k \in 1 .. Len(s) : IsDigit(s[k])
    THEN [ok |-> TRUE, value |-> ParseDec(s)]
    ELSE [ok |-> FALSE, value |-> 0]

ErrNoBucket == "please specify the bucket"
ErrBothModes == "please specify either regexp or versioned_file"

\* Source.IsValid
IsValid(req) ==
    IF req.bucket = "" THEN [ok |-> FALSE, message |-> ErrNoBucket]
    ELSE IF req.regexp # "" /\ req.versionedFile # <<>>
    THEN [ok |-> FALSE, message |-> ErrBothModes]
    ELSE [ok |-> TRUE, message |-> ""]

\* ------------------------------------------------------------ InCommand.Run

ErrNotVersioned == "bucket is not versioned"
ErrNoExtractions == "no extractions could be found - is your regexp correct?"
ErrUnpack == "failed to extract with the 'params.unpack' option enabled"
ErrGeneration == "invalid generation"

VersionedFilePath == <<"v", "f">>

TokenUniverse ==
    {<<"9">>, <<"1", "0">>, <<"1", "0", "0">>, <<"9", ".", "1">>, <<"9", "-", "1">>}

\* object names a bucket may hold: five that match the pattern, one that does not
KeyUniverse == {KeyPrefix \o t : t \in TokenUniverse} \cup {<<"x">>}

\* the listings: up to MaxObjects distinct names, in any order
Listings ==
    {l \in UNION {[1 .. n -> KeyUniverse] : n \in 0 .. MaxObjects} :
        \A a, b \in DOMAIN l : a # b => l[a] # l[b]}

GenerationStrings == {<<>>, <<"x">>} \cup {Itoa(g) : g \in 0 .. MaxGeneration}

Requests ==
    {r \in [bucket : {"", "bucket-name"},
            regexp : {"", RegexpGroup, RegexpNoGroup},
            versionedFile : {<<>>, VersionedFilePath},
            versionPath : {<<>>, KeyPrefix \o <<"9">>, <<"x">>},
            versionGeneration : GenerationStrings,
            sourceSkipDownload : BOOLEAN,
            paramsSkipDownload : BOOLEAN,
            unpack : BOOLEAN] :
        /\ r.regexp = "" => r.versionPath = <<>>
        /\ r.versionedFile = <<>> => r.versionGeneration = <<>>}

InitIn ==
    /\ InitWith(0)
    /\ parallelUploadThreshold = -1
    /\ request \in Requests
    /\ listing \in Listings
    /\ request.regexp = "" => listing = <<>>
    /\ ~IsValid(request).ok => Len(listing) <= 1
    /\ GenIdle
    /\ inPc = "run"
    /\ inReturned = FALSE
    /\ inResponse = [path |-> <<>>, generation |-> <<>>]
    /\ inErr = Nil
    /\ inObjectPath = <<>>
    /\ inGeneration = 0
    /\ destDir = {}
    /\ calls = <<>>

Call(op, path, generation, err) ==
    [op |-> op, path |-> path, generation |-> generation, err |-> err]

NoResponse == [path |-> <<>>, generation |-> <<>>]

InReturn(resp, e) ==
    /\ inReturned' = TRUE
    /\ inResponse' = resp
    /\ inErr' = e

InNoReturn == UNCHANGED <<inReturned, inResponse, inErr>>

\* mutant: the destination directory is created before the source is validated
InRunCreateFirst ==
    /\ inPc = "run" /\ ~inReturned
    /\ destDir' = {"."}
    /\ IF ~IsValid(request).ok
       THEN /\ InReturn(NoResponse, IsValid(request).message)
            /\ UNCHANGED inPc
       ELSE /\ inPc' = IF request.regexp # "" THEN "path" ELSE "generation"
            /\ InNoReturn
    /\ UNCHANGED <<request, listing, inObjectPath, inGeneration, calls, uploadVars, genVars,
                   bucketVersioning>>

\* InCommand.Run: validate the source, create the destination directory,
\* choose the mode
InRun ==
    /\ inPc = "run" /\ ~inReturned
    /\ IF ~IsValid(request).ok
       THEN /\ InReturn(NoResponse, IsValid(request).message)
            /\ UNCHANGED <<inPc, destDir>>
       ELSE \/ /\ \E e \in FsErrors : InReturn(NoResponse, e)
               /\ UNCHANGED <<inPc, destDir>>
            \/ /\ destDir' = {"."}
               /\ inPc' = IF request.regexp # "" THEN "path" ELSE "generation"
               /\ InNoReturn
    /\ UNCHANGED <<request, listing, inObjectPath, inGeneration, calls, uploadVars, genVars,
                   bucketVersioning>>

\* mutant: the requested path is ignored, the bucket is always listed
pathToDownloadAlwaysList(req, objects) ==
    LET extractions == GetBucketObjectVersions(objects, req.regexp)
    IN  IF Len(extractions) = 0
        THEN [path |-> <<>>, err |-> ErrNoExtractions, listed |-> TRUE]
        ELSE [path |-> extractions[Len(extractions)].path, err |-> Nil, listed |-> TRUE]

\* mutant: the first extraction is taken
pathToDownloadFirst(req, objects) ==
    IF req.versionPath # <<>>
    THEN [path |-> req.versionPath, err |-> Nil, listed |-> FALSE]
    ELSE LET extractions == GetBucketObjectVersions(objects, req.regexp)
         IN  IF Len(extractions) = 0
             THEN [path |-> <<>>, err |-> ErrNoExtractions, listed |-> TRUE]
             ELSE [path |-> extractions[1].path, err |-> Nil, listed |-> TRUE]

\* mutant: an empty list of extractions is not an error
pathToDownloadNoCheck(req, objects) ==
    IF req.versionPath # <<>>
    THEN [path |-> req.versionPath, err |-> Nil, listed |-> FALSE]
    ELSE LET extractions == GetBucketObjectVersions(objects, req.regexp)
         IN  IF Len(extractions) = 0
             THEN [path |-> <<>>, err |-> Nil, listed |-> TRUE]
             ELSE [path |-> extractions[Len(extractions)].path, err |-> Nil, listed |-> TRUE]

\* InCommand.pathToDownload: the path, the error, and whether the bucket was
\* listed (objects being what BucketObjects returns)
pathToDownload(req, objects) ==
    IF req.versionPath # <<>>
    THEN [path |-> req.versionPath, err |-> Nil, listed |-> FALSE]
    ELSE LET extractions == GetBucketObjectVersions(objects, req.regexp)
         IN  IF Len(extractions) = 0
             THEN [path |-> <<>>, err |-> ErrNoExtractions, listed |-> TRUE]
             ELSE [path |-> extractions[Len(extractions)].path, err |-> Nil, listed |-> TRUE]

\* inByRegex up to the download: objectPath, err := command.pathToDownload(request)
InPathToDownload ==
    /\ inPc = "path" /\ ~inReturned
    /\ LET p == pathToDownload(request, listing)
       IN  /\ calls' = IF p.listed
                       THEN Append(calls, Call("BucketObjects", <<>>, 0, Nil))
                       ELSE calls
           /\ IF p.err # Nil
              THEN /\ InReturn(NoResponse, p.err)
                   /\ UNCHANGED <<inPc, inObjectPath>>
              ELSE /\ inObjectPath' = p.path
                   /\ inPc' = "download"
                   /\ InNoReturn
    /\ UNCHANGED <<request, listing, inGeneration, destDir, uploadVars, genVars,
                   bucketVersioning>>

\* inByVersionedFile up to the download: generation, err := request.Version.GenerationValue()
InGenerationValue ==
    /\ inPc = "generation" /\ ~inReturned
    /\ LET g == GenerationValue(request.versionGeneration)
       IN  IF ~g.ok
           THEN /\ InReturn(NoResponse, ErrGeneration)
                /\ UNCHANGED <<inPc, inObjectPath, inGeneration>>
           ELSE /\ inObjectPath' = request.versionedFile
                /\ inGeneration' = g.value
                /\ inPc' = "download"
                /\ InNoReturn
    /\ UNCHANGED <<request, listing, destDir, calls, uploadVars, genVars,
                   bucketVersioning>>

\* mutant: every download from a bucket without versioning is refused
notVersionedRefusedAlways(versioned, generation) == ~versioned

\* if !isBucketVersioned && generation != 0
notVersionedRefused(versioned, generation) == ~versioned /\ generation # 0

\* gcsclient.DownloadFile(bucketName, objectPath, generation, localPath): its
\* possible outcomes, each with the error returned, the calls made on the
\* store and whether the local file was created
DownloadFileOutcomes(versioned, path, generation) ==
    LET bucketGet == Call("Buckets.Get", <<>>, 0, Nil)
        objectGet == Call("Objects.Get", path, generation, Nil)
    IN  {[err |-> e, calls |-> <<Call("Buckets.Get", <<>>, 0, e)>>, created |-> FALSE] :
            e \in StoreErrors}
        \cup
        (IF notVersionedRefused(versioned, generation)
         THEN {[err |-> ErrNotVersioned, calls |-> <<bucketGet>>, created |-> FALSE]}
         ELSE {[err |-> e,
                calls |-> <<bucketGet, Call("Objects.Get", path, generation, e)>>,
                created |-> FALSE] : e \in StoreErrors}
              \cup {[err |-> e, calls |-> <<bucketGet, objectGet>>, created |-> FALSE] :
                       e \in FsErrors}
              \cup {[err |-> e,
                     calls |-> <<bucketGet, objectGet,
                                 Call("Objects.Download", path, generation, e)>>,
                     created |-> TRUE] : e \in StoreErrors \cup {Nil}})

\* command.downloadFile(bucketName, objectPath, generation, localPath)
InDownloadFile ==
    /\ inPc = "download" /\ ~inReturned
    /\ \E o \in DownloadFileOutcomes(bucketVersioning, inObjectPath, inGeneration) :
          /\ calls' = Append(calls, Call("DownloadFile", inObjectPath, inGeneration, o.err))
                      \o o.calls
          /\ destDir' = IF o.created THEN destDir \cup {"file"} ELSE destDir
          /\ IF o.err # Nil
             THEN /\ InReturn(NoResponse, o.err)
                  /\ UNCHANGED inPc
             ELSE /\ inPc' = "after"
                  /\ InNoReturn
    /\ UNCHANGED <<request, listing, inObjectPath, inGeneration, uploadVars, genVars,
                   bucketVersioning>>

\* the rest of inByRegex / inByVersionedFile: unpack, the version or
\* generation file, the URL call, the url file, the response
InAfterDownload ==
    /\ inPc = "after" /\ ~inReturned
    /\ LET regexpMode == request.regexp # ""
           versionFiles ==
               IF regexpMode
               THEN (IF Extract(inObjectPath, request.regexp).ok THEN {"version"} ELSE {})
               ELSE {"generation"}
           urlGeneration == IF regexpMode THEN 0 ELSE inGeneration
           response ==
               IF regexpMode
               THEN [path |-> inObjectPath, generation |-> <<>>]
               ELSE [path |-> <<>>, generation |-> Itoa(inGeneration)]
       IN  \/ /\ request.unpack
              /\ InReturn(NoResponse, ErrUnpack)
              /\ UNCHANGED <<destDir, calls>>
           \/ /\ versionFiles # {}
              /\ \E e \in FsErrors : InReturn(NoResponse, e)
              /\ UNCHANGED <<destDir, calls>>
           \/ /\ \E e \in StoreErrors :
                    /\ calls' = Append(calls, Call("URL", inObjectPath, urlGeneration, e))
                    /\ InReturn(NoResponse, e)
              /\ destDir' = destDir \cup versionFiles
           \/ /\ calls' = Append(calls, Call("URL", inObjectPath, urlGeneration, Nil))
              /\ \/ /\ \E e \in FsErrors : InReturn(NoResponse, e)
                    /\ destDir' = destDir \cup versionFiles
                 \/ /\ InReturn(response, Nil)
                    /\ destDir' = destDir \cup versionFiles \cup {"url"}
    /\ UNCHANGED <<request, listing, inPc, inObjectPath, inGeneration, uploadVars, genVars,
                   bucketVersioning>>

NextIn ==
    \/ InRun
    \/ InPathToDownload
    \/ InGenerationValue
    \/ InDownloadFile
    \/ InAfterDownload

SpecIn == InitIn /\ [][NextIn]_vars

\* ------------------------------------------------------------ ObjectGenerations

\* a name the listing's prefix matches although it is not objectPath
LongerPath == ObjectPath \o <<"2">>

\* the object versions a bucket may retain under the prefix objectPath
StoredObjects == [name : {ObjectPath, LongerPath}, generation : 1 .. MaxGeneration]

Stores == UNION {[1 .. n -> StoredObjects] : n \in 0 .. MaxVersions}

InitGen ==
    /\ InitWith(0)
    /\ parallelUploadThreshold = -1
    /\ InIdle
    /\ stored \in Stores
    /\ pageSize \in 1 .. MaxPageSize
    /\ genPc = "versioning"
    /\ genReturned = FALSE
    /\ genResult = <<>>
    /\ genErr = Nil
    /\ pageToken = 0
    /\ objectGenerations = <<>>

GenReturn(g, e) == genReturned' = TRUE /\ genResult' = g /\ genErr' = e

GenNoReturn == UNCHANGED <<genReturned, genResult, genErr>>

\* objects.Items of the page a token asks for
PageItems(token) ==
    SubSeq(stored, token * pageSize + 1, Min((token + 1) * pageSize, Len(stored)))

\* objects.NextPageToken of that page; 0 is the empty token
NextPageToken(token) ==
    IF (token + 1) * pageSize < Len(stored) THEN token + 1 ELSE 0

keepGenerationByPrefix(object, objectPath) == HasPrefix(object.name, objectPath)

\* if object.Name == objectPath
keepGeneration(object, objectPath) == object.name = objectPath

\* the inner loop of getObjectGenerations over one page
RECURSIVE AppendGenerations(_, _, _)
AppendGenerations(acc, items, objectPath) ==
    IF items = <<>> THEN acc
    ELSE AppendGenerations(
             IF keepGeneration(Head(items), objectPath)
             THEN Append(acc, Head(items).generation) ELSE acc,
             Tail(items), objectPath)

\* isBucketVersioned, err := getBucketVersioning(bucketName) and the two guards
GenGetBucketVersioning ==
    /\ genPc = "versioning" /\ ~genReturned
    /\ \E err \in {Nil} \cup StoreErrors :
          /\ calls' = Append(calls, Call("Buckets.Get", <<>>, 0, err))
          /\ IF err # Nil
             THEN GenReturn(<<>>, err) /\ UNCHANGED genPc
             ELSE IF ~bucketVersioning
                  THEN GenReturn(<<>>, ErrNotVersioned) /\ UNCHANGED genPc
                  ELSE GenNoReturn /\ genPc' = "list"
    /\ UNCHANGED <<stored, pageSize, pageToken, objectGenerations>>
    /\ UNCHANGED <<request, listing, inPc, inReturned, inResponse, inErr, inObjectPath,
                   inGeneration, destDir, uploadVars, bucketVersioning>>

\* one round of the loop of getObjectGenerations: list a page, keep the
\* generations of the objects named objectPath, go on with the next token
GenListPage ==
    /\ genPc = "list" /\ ~genReturned
    /\ \E err \in {Nil} \cup StoreErrors :
          /\ calls' = Append(calls, Call("Objects.List", ObjectPath, pageToken, err))
          /\ IF err # Nil
             THEN /\ GenReturn(<<>>, err)
                  /\ UNCHANGED <<genPc, pageToken, objectGenerations>>
             ELSE /\ objectGenerations' =
                        AppendGenerations(objectGenerations, PageItems(pageToken), ObjectPath)
                  /\ IF NextPageToken(pageToken) # 0
                     THEN /\ pageToken' = NextPageToken(pageToken)
                          /\ GenNoReturn /\ UNCHANGED genPc
                     ELSE /\ GenReturn(objectGenerations', Nil)
                          /\ UNCHANGED <<genPc, pageToken>>
    /\ UNCHANGED <<stored, pageSize>>
    /\ UNCHANGED <<request, listing, inPc, inReturned, inResponse, inErr, inObjectPath,
                   inGeneration, destDir, uploadVars, bucketVersioning>>

NextGen ==
    \/ GenGetBucketVersioning
    \/ GenListPage

SpecGen == InitGen /\ [][NextGen]_vars

Workers == 1 .. MaxParts

Next ==
    \/ GetBucketVersioning
    \/ Stat
    \/ Plan
    \/ FanOut
    \/ \E w \in Workers : WorkerDo(w)
    \/ \E w \in Workers : Receive(w)
    \/ Compose
    \/ DeletePart
    \/ SingleOpen
    \/ SingleInsert

Spec == Init /\ [][Next]_vars

\* The coordinator up to the end of the fan-out, on file sizes large enough
\* for the clamp to 32 parts; the goroutines have not been scheduled yet.
NextPlan ==
    \/ GetBucketVersioning
    \/ Stat
    \/ Plan
    \/ FanOut

SpecPlan == InitPlan /\ [][NextPlan]_vars

\* ------------------------------------------------------------ properties

\* the coordinator is past the planning lines of UploadFile
planned == pc \notin {"versioning", "stat", "plan"}

\* the coordinator is in the multi-part branch
multiPart == pc \in {"fanout", "join", "compose", "cleanup"}

\* the threshold in bytes
thresholdBytes == parallelUploadThreshold * (2 ^ MBShift)

\* ceil(a / b) for a >= 0, b > 0
CeilDiv(a, b) == (a + b - 1) \div b

\* name is ObjectPath + ".part" + the decimal numeral of k
IsPartKey(name, k) ==
    LET prefix == ObjectPath \o DotPart
        digits == SubSeq(name, Len(prefix) + 1, Len(name))
    IN  /\ Len(name) > Len(prefix)
        /\ SubSeq(name, 1, Len(prefix)) = prefix
        /\ \A d \in 1 .. Len(digits) : \E v \in 0 .. 9 : DigitChars[v + 1] = digits[d]
        /\ ParseDec(digits) = k

\* the errors among the received results, in the order received
ReceivedErrors == SelectSeq(received, LAMBDA x : x.err # Nil)

\* some chunk upload has failed
SomeChunkFailed == \E w \in DOMAIN worker : worker[w].err # Nil

RECURSIVE SumLengths(_)
SumLengths(rs) ==
    IF Len(rs) = 0 THEN 0
    ELSE (rs[Len(rs)].to - rs[Len(rs)].from) + SumLengths(SubSeq(rs, 1, Len(rs) - 1))

\* C1: when UploadFile returns from the join loop because a chunk upload
\* failed, every started chunk worker has reported its result: threads
\* results were received before the error was returned.
C1_AllResultsReceivedBeforeError ==
    (returned /\ pc = "join") =>
        /\ Len(received) = threads
        /\ \A w \in DOMAIN worker : worker[w].st = "done"

\* C2: once a chunk upload has failed, no compose and no part delete is ever
\* issued and UploadFile cannot return success; the error returned from the
\* join is the first non-nil error the coordinator received, whatever errors
\* the other workers hold.
C2_FirstErrorAndNoCompose ==
    /\ SomeChunkFailed => (composeCalls = <<>> /\ deleteCalls = <<>>)
    /\ (returned /\ SomeChunkFailed) => (retErr # Nil /\ retGeneration = 0)
    /\ (returned /\ ReceivedErrors # <<>>) => retErr = ReceivedErrors[1].err

\* C2 witness: the join returned an error after a successful result, while
\* another worker holds a different error that is never returned.
C2_Witness ==
    /\ returned /\ pc = "join"
    /\ Len(received) >= 2
    /\ received[1].err = Nil
    /\ \E w \in DOMAIN worker :
          /\ worker[w].st = "sending"
          /\ worker[w].err \notin {Nil, retErr}

\* C3: at most one compose request is issued, a successful multi-part
\* UploadFile has issued exactly one, and its sources are the part keys
\* objectPath + ".part" + k for k = 0 .. threads-1 in index order, all
\* distinct, whatever the order in which the chunk uploads reported.
C3_ComposeSourcesInIndexOrder ==
    /\ Len(composeCalls) <= 1
    /\ (returned /\ multiPart /\ retErr = Nil) => Len(composeCalls) = 1
    /\ \A c \in 1 .. Len(composeCalls) :
          LET srcs == composeCalls[c].sources
          IN  /\ composeCalls[c].destination = ObjectPath
              /\ Len(srcs) = threads
              /\ \A k \in 1 .. Len(srcs) : IsPartKey(srcs[k], k - 1)
              /\ \A a, b \in 1 .. Len(srcs) : a # b => srcs[a] # srcs[b]

\* C3 witness: a successful multi-part upload whose last chunk reported first.
C3_Witness ==
    /\ returned /\ pc = "cleanup" /\ retErr = Nil
    /\ Len(composeCalls) = 1
    /\ threads >= 3
    /\ received[1].chunk = threads - 1
    /\ received[threads].chunk = 0

\* C4: in the multi-part path chunk k < threads-1 reads exactly
\* [k*trunkSize, (k+1)*trunkSize) and the last chunk reads
\* [(threads-1)*trunkSize, fileSize); the ranges lie within the file, are
\* pairwise disjoint, and once all are opened their lengths sum to fileSize.
C4_ChunkRangesPartitionFile ==
    multiPart =>
        /\ \A k \in 1 .. Len(readers) :
              /\ readers[k].from = (k - 1) * trunkSize
              /\ readers[k].to = IF k = threads THEN fileSize ELSE k * trunkSize
              /\ 0 <= readers[k].from
              /\ readers[k].from <= readers[k].to
              /\ readers[k].to <= fileSize
        /\ \A a, b \in 1 .. Len(readers) : a < b => readers[a].to <= readers[b].from
        /\ Len(readers) = threads => SumLengths(readers) = fileSize

\* C4 witness: a completed fan-out of 32 chunks in the clamped case, the file
\* size not a multiple of 32.
C4_Witness ==
    /\ pc = "join"
    /\ Len(readers) = MaxParts
    /\ trunkSize # thresholdBytes
    /\ fileSize % MaxParts # 0

\* C5: deletes are issued only after a successful compose; UploadFile then
\* issues one delete per part key, in index order, each key exactly once,
\* continues after a failed delete, and returns (0, nil) only after all
\* threads deletes, whatever their outcomes.
C5_CleanupDeletesEveryPart ==
    /\ pc # "cleanup" => deleteCalls = <<>>
    /\ pc = "cleanup" =>
          /\ Len(composeCalls) = 1
          /\ Len(deleteCalls) = (IF returned THEN threads ELSE i)
          /\ \A k \in 1 .. Len(deleteCalls) : IsPartKey(deleteCalls[k].name, k - 1)
          /\ returned => (retErr = Nil /\ retGeneration = 0)

\* C5 witness: UploadFile returned success although the first delete failed,
\* and the later deletes were still issued.
C5_Witness ==
    /\ returned /\ pc = "cleanup" /\ retErr = Nil
    /\ Len(deleteCalls) = threads
    /\ deleteCalls[1].err # Nil
    /\ deleteCalls[threads].err = Nil

\* C6: for threshold > 0 the planned threads is min(ceil(fileSize/threshold), 32),
\* never more than 32 workers are started, and the chunk size is the threshold
\* unchanged when ceil(fileSize/threshold) <= 32.
C6_ThreadsIsCappedCeiling ==
    /\ Len(worker) <= MaxParts
    /\ (planned /\ parallelUploadThreshold > 0) =>
          /\ threads = Min(CeilDiv(fileSize, thresholdBytes), MaxParts)
          /\ CeilDiv(fileSize, thresholdBytes) <= MaxParts => trunkSize = thresholdBytes

\* C6 witness: a file of more than 32 thresholds, all 32 workers started.
C6_Witness ==
    /\ pc = "join"
    /\ parallelUploadThreshold > 0
    /\ CeilDiv(fileSize, thresholdBytes) > MaxParts
    /\ threads = MaxParts
    /\ Len(worker) = MaxParts

\* the plan was clamped to 32 threads
Clamped ==
    /\ planned
    /\ parallelUploadThreshold > 0
    /\ CeilDiv(fileSize, thresholdBytes) > MaxParts

\* C7 (as stated): when the plan is clamped to 32 threads the recomputed
\* chunk size times 32 is at least the file size.
C7_ClampedChunksCoverFile == Clamped => trunkSize * MaxParts >= fileSize

\* C7 (amended): when the plan is clamped to 32 threads the recomputed chunk
\* size is fileSize / 32 rounded down: chunk size times 32 is at most the file
\* size and falls short of it by less than 32 bytes.
C7_ClampedChunkIsFloor ==
    Clamped =>
        /\ threads = MaxParts
        /\ trunkSize * MaxParts <= fileSize
        /\ fileSize < trunkSize * MaxParts + MaxParts

\* C7 witness: fileSize = threshold*32 + 1, where 32 chunks fall one byte short.
C7_Witness ==
    /\ Clamped
    /\ fileSize = thresholdBytes * MaxParts + 1
    /\ threads = MaxParts
    /\ trunkSize * MaxParts = fileSize - 1

\* C8: every plan has at least one thread, and for an empty file and a
\* threshold > 0 the plan has exactly one thread.
C8_EmptyFilePlansOneThread ==
    planned =>
        /\ threads >= 1
        /\ (fileSize = 0 /\ parallelUploadThreshold > 0) => threads = 1

C10_SinglePartGeneration ==
    (returned /\ pc = "insert") =>
        /\ retErr = uploadedObject.err
        /\ retGeneration = (IF uploadedObject.err = Nil /\ bucketVersioning
                            THEN uploadedObject.generation
                            ELSE 0)

\* C10 witness: a versioned bucket, and the store's generation is returned.
C10_Witness ==
    /\ returned /\ pc = "insert"
    /\ bucketVersioning
    /\ retErr = Nil
    /\ uploadedObject.generation = MaxGeneration
    /\ retGeneration = MaxGeneration

\* ---- InCommand.Run

\* the calls of one kind made so far
CallsOf(op) == SelectSeq(calls, LAMBDA c : c.op = op)

\* the request is valid and asks for the regexp mode / the versioned-file mode
RegexpMode == request.bucket # "" /\ request.regexp # "" /\ request.versionedFile = <<>>
VersionedFileMode == request.bucket # "" /\ request.regexp = ""

\* DownloadFile learned from the store that the bucket has no versioning
KnownUnversioned ==
    /\ ~bucketVersioning
    /\ \E k \in DOMAIN calls : calls[k].op = "Buckets.Get" /\ calls[k].err = Nil

\* the download was refused: "bucket is not versioned", nothing fetched
DownloadRefused ==
    /\ inReturned
    /\ inErr = ErrNotVersioned
    /\ CallsOf("Objects.Get") = <<>>
    /\ CallsOf("Objects.Download") = <<>>

C13_InvalidSourceNoCalls ==
    (request.bucket = "" \/ (request.regexp # "" /\ request.versionedFile # <<>>)) =>
        /\ calls = <<>>
        /\ destDir = {}
        /\ inPc \in {"idle", "run"}
        /\ inReturned => inErr = (IF request.bucket = "" THEN ErrNoBucket ELSE ErrBothModes)

\* C13 witness: both modes set, a bucket with an object in it, Run has returned.
C13_Witness ==
    /\ inReturned
    /\ request.bucket # ""
    /\ request.regexp # "" /\ request.versionedFile # <<>>
    /\ listing # <<>>
    /\ inErr = ErrBothModes

NoCandidates ==
    \/ request.regexp = RegexpNoGroup
    \/ \A k \in DOMAIN listing : ~HasPrefix(listing[k], KeyPrefix)

\* C15: in regexp mode without a requested path, when the listing yields no
\* extraction, Run fails with "no extractions could be found" and makes no
\* DownloadFile and no URL call.
C15_NoExtractionsIsAnError ==
    (RegexpMode /\ request.versionPath = <<>> /\ NoCandidates) =>
        /\ CallsOf("DownloadFile") = <<>>
        /\ CallsOf("URL") = <<>>
        /\ inPc \in {"run", "path"}
        /\ (inPc = "path" /\ inReturned) => inErr = ErrNoExtractions
        /\ CallsOf("BucketObjects") # <<>> => (inReturned /\ inErr = ErrNoExtractions)

\* C15 witness: a pattern without a group over a bucket with a matching name.
C15_Witness ==
    /\ RegexpMode /\ request.versionPath = <<>>
    /\ request.regexp = RegexpNoGroup
    /\ \E k \in DOMAIN listing : HasPrefix(listing[k], KeyPrefix)
    /\ inReturned /\ inErr = ErrNoExtractions

\* the tokens of the bucket's names in ascending version order: digit runs
\* as integers, so 9 < 9-1 < 9.1 < 10 < 100
TokenOrder == <<<<"9">>, <<"9", "-", "1">>, <<"9", ".", "1">>, <<"1", "0">>, <<"1", "0", "0">>>>

\* the place of a matching object name in that order
Rank(key) == CHOOSE r \in 1 .. Len(TokenOrder) : key = KeyPrefix \o TokenOrder[r]

\* C16: in regexp mode without a requested path the object Run resolves and
\* downloads is the listed candidate of maximal version token under the
\* run-wise order, for every listing order.
C16_LatestByVersionToken ==
    (RegexpMode /\ request.versionPath = <<>> /\ inPc \in {"download", "after"}) =>
        /\ \E k \in DOMAIN listing : listing[k] = inObjectPath
        /\ HasPrefix(inObjectPath, KeyPrefix)
        /\ \A k \in DOMAIN listing :
              HasPrefix(listing[k], KeyPrefix) => Rank(listing[k]) <= Rank(inObjectPath)
        /\ \A k \in DOMAIN calls :
              calls[k].op = "DownloadFile" =>
                  (calls[k].path = inObjectPath /\ calls[k].generation = 0)

\* C16 witness: f-100 is downloaded although f-9 and f-10 are listed after it
\* and f-9 is the greatest name in string order.
C16_Witness ==
    /\ RegexpMode /\ request.versionPath = <<>>
    /\ listing = <<KeyPrefix \o <<"1", "0", "0">>, KeyPrefix \o <<"9">>,
                   KeyPrefix \o <<"1", "0">>>>
    /\ Len(CallsOf("DownloadFile")) = 1
    /\ CallsOf("DownloadFile")[1].path = KeyPrefix \o <<"1", "0", "0">>

\* skip_download is in effect: set to true in the params (Params.SkipDownload
\* is a bool, so a source setting overridden to false cannot be told from one
\* that is not overridden; that case is left out)
SkipInEffect == request.paramsSkipDownload

\* C17: when skip_download is in effect Run never calls DownloadFile.
C17_SkipDownloadNeverDownloads ==
    SkipInEffect => CallsOf("DownloadFile") = <<>>

\* ---- ObjectGenerations

\* the stored versions named objectPath, in store order, and their generations
StoredUnderPath == SelectSeq(stored, LAMBDA o : o.name = ObjectPath)
ExpectedGenerations == [k \in 1 .. Len(StoredUnderPath) |-> StoredUnderPath[k].generation]

\* the pages a listing of the whole store takes
PageCount == IF stored = <<>> THEN 1 ELSE CeilDiv(Len(stored), pageSize)

\* C12: on a bucket without versioning ObjectGenerations fails with "bucket
\* is not versioned" and lists nothing; on a versioned bucket it walks every
\* page and returns exactly the generations of the objects named objectPath,
\* in store order.
C12_GenerationsOfExactName ==
    /\ ~bucketVersioning =>
          /\ CallsOf("Objects.List") = <<>>
          /\ (genReturned /\ CallsOf("Buckets.Get")[1].err = Nil) =>
                (genErr = ErrNotVersioned /\ genResult = <<>>)
    /\ (bucketVersioning /\ genReturned /\ genErr = Nil) =>
          /\ genResult = ExpectedGenerations
          /\ Len(CallsOf("Objects.List")) = PageCount

\* C12 witness: two pages, a prefix-only match between two versions of the
\* object, reported newest first.
C12_Witness ==
    /\ bucketVersioning /\ genReturned /\ genErr = Nil
    /\ Len(CallsOf("Objects.List")) = 2
    /\ stored = <<[name |-> ObjectPath, generation |-> 2],
                  [name |-> LongerPath, generation |-> 1],
                  [name |-> ObjectPath, generation |-> 1]>>
    /\ genResult = <<2, 1>>

\* ---- UploadFile: barrier, handles, termination

\* every chunk worker has uploaded its part and handed over its result
AllWorkersDone == \A w \in DOMAIN worker : worker[w].st = "done"

\* C18: in the multi-part path the compose request is issued only after every
\* one of the threads chunk workers has finished its upload and reported
\* success; no chunk is in flight when the coordinator reaches compose.
C18_ComposeAfterAllChunksSucceeded ==
    (pc = "compose" \/ composeCalls # <<>>) =>
        /\ Len(worker) = threads
        /\ Len(received) = threads
        /\ \A w \in DOMAIN worker : worker[w].st = "done" /\ worker[w].err = Nil

\* C18 witness: compose sent for a file of MaxChunks chunks.
C18_Witness ==
    /\ composeCalls # <<>>
    /\ threads = MaxChunks
    /\ Len(worker) = MaxChunks

\* C19: in the multi-part path, once UploadFile has returned and all workers
\* have finished, no chunk read handle remains open.
C19_HandlesReleased ==
    (multiPart /\ returned /\ AllWorkersDone) => openFiles = {}

\* C20: no chunk worker stays blocked forever: while a started worker has not
\* terminated, some step of the program is still possible.
C20_NoWorkerBlockedForever ==
    (\E w \in DOMAIN worker : worker[w].st # "done") => ENABLED Next

\* ---- UploadFile: generation of a composed object

\* C21: on the multi-part path a successful UploadFile returns generation 0,
\* also on a versioned bucket whose store gave the composed object a non-zero
\* generation; so on a versioned bucket a successful upload returns 0 exactly
\* when the file is bigger than a positive threshold, and the store's
\* generation otherwise.
C21_MultiPartReturnsGenerationZero ==
    (returned /\ retErr = Nil) =>
        /\ multiPart =>
              /\ retGeneration = 0
              /\ Len(composeCalls) = 1
              /\ composeCalls[1].generation >= 1
        /\ bucketVersioning =>
              (retGeneration = 0 <=>
                   (parallelUploadThreshold > 0 /\ localFileSize > thresholdBytes))

\* C21 witness: a versioned bucket, the composed object has generation
\* MaxGeneration, and UploadFile returned 0 without an error.
C21_Witness ==
    /\ returned /\ retErr = Nil /\ pc = "cleanup"
    /\ bucketVersioning /\ isBucketVersioned
    /\ composeCalls[1].generation = MaxGeneration
    /\ retGeneration = 0

====
